---- MODULE Spec2Model ----
(***************************************************************************)
(* Model of the image kernel of vision-hw1: pixel access                   *)
(* (process_image.c: get_pixel, set_pixel), pixel transforms (shift_image, *)
(* clamp_image), the RGB<->HSV conversions, and the resamplers of          *)
(* resize_image.c (nearest-neighbour and bilinear).                        *)
(*                                                                         *)
(* A float sample is modelled as an exact rational <<num, den>> in lowest  *)
(* terms with den > 0; the arithmetic of the C code is carried out exactly *)
(* (no rounding error, no NaN/infinity).                                   *)
(*                                                                         *)
(* An image is the struct {w, h, c, data}.  data is modelled as the memory *)
(* starting at the buffer's address: cells 0 .. w*h*c-1 are the buffer,    *)
(* the cells after it are the memory that follows the allocation.  The     *)
(* code can address those cells (see get_pixel / set_pixel); what they     *)
(* hold is not determined by the program, so their content is chosen       *)
(* nondeterministically in the initial state.                              *)
(***************************************************************************)
EXTENDS Integers, Sequences, FiniteSets, TLC

VARIABLES im, pre, orig, op, prev, n, ret, acc, out, par

vars == <<im, pre, orig, op, prev, n, ret, acc, out, par>>

(***************************************************************************)
(* Bounds of the model.                                                    *)
(***************************************************************************)
MaxW == 2
MaxH == 2
MaxC == 2
MaxOps == 2
MaxSeed == 2
HsvGrid == 4
MaxNew == 3
ParW == 2

(***************************************************************************)
(* Exact rational arithmetic standing for the float arithmetic of the code *)
(***************************************************************************)
Abs(k) == IF k < 0 THEN -k ELSE k

RECURSIVE GCD(_, _)
GCD(a, b) == IF b = 0 THEN a ELSE GCD(b, a % b)

Rat(num, den) ==
    LET s == IF den < 0 THEN -1 ELSE 1
        g == GCD(Abs(num), Abs(den))
    IN  <<(s * num) \div g, (s * den) \div g>>

I(k) == <<k, 1>>

\* Sums and comparisons go through the least common denominator and products
\* cancel crosswise first, so that intermediate integers stay small.
LCM(a, b) == (a \div GCD(a, b)) * b

RAdd(a, b) ==
    LET l == LCM(a[2], b[2])
    IN  Rat(a[1] * (l \div a[2]) + b[1] * (l \div b[2]), l)
RNeg(a) == <<-a[1], a[2]>>
RSub(a, b) == RAdd(a, RNeg(b))
RMul(a, b) ==
    LET g1 == GCD(Abs(a[1]), b[2])
        g2 == GCD(Abs(b[1]), a[2])
    IN  Rat((a[1] \div g1) * (b[1] \div g2), (a[2] \div g2) * (b[2] \div g1))
RDiv(a, b) == RMul(a, IF b[1] < 0 THEN <<-b[2], -b[1]>> ELSE <<b[2], b[1]>>)
RLt(a, b) ==
    LET l == LCM(a[2], b[2])
    IN  a[1] * (l \div a[2]) < b[1] * (l \div b[2])
RLe(a, b) == ~RLt(b, a)
RGt(a, b) == RLt(b, a)

\* floorf, ceilf, round (halfway cases away from zero), truncation, fabs, fmod
Floor(a) == a[1] \div a[2]
Ceil(a) == -((-a[1]) \div a[2])
Round(a) ==
    IF a[1] >= 0 THEN (2 * a[1] + a[2]) \div (2 * a[2])
    ELSE -((2 * (-a[1]) + a[2]) \div (2 * a[2]))
Trunc(a) == IF a[1] >= 0 THEN Floor(a) ELSE Ceil(a)
Fabs(a) == <<Abs(a[1]), a[2]>>
Fmod(a, b) == RSub(a, RMul(b, I(Trunc(RDiv(a, b)))))

(***************************************************************************)
(* Images                                                                  *)
(***************************************************************************)
BufLen(w, h, c) == w * h * c

\* Cells the code can address from the buffer's base: the largest index it
\* forms is w + h*w + w*h*c (x = w, y = h, channel = c).
MemLen(w, h, c) == w * h * (c + 1) + w + 1

Buffer(image) == 0 .. (BufLen(image.w, image.h, image.c) - 1)

Junk == {<<-3, 1>>, <<7, 1>>}

\* make_image(w, h, c): a fresh buffer of w*h*c samples.  Its content before
\* the first write is not relied upon: like the memory after it, it holds
\* junk.  wr is a ghost field: the set of cells written since the current
\* call began.
make_image(w, h, c, junk) ==
    [w |-> w, h |-> h, c |-> c,
     data |-> [i \in 0 .. (MemLen(w, h, c) - 1) |-> junk],
     wr |-> {}]

Fresh(image) == [image EXCEPT !.wr = {}]

(***************************************************************************)
(* process_image.c: get_pixel, set_pixel                                   *)
(***************************************************************************)
\* The cell get_pixel reads: the clamping of lines 28-34, then line 36.
GetIdx(image, x, y, c) ==
    LET x1 == IF x > image.w THEN image.w - 1 ELSE x
        y1 == IF y > image.h THEN image.h - 1 ELSE y
        c1 == IF c > image.c THEN image.c - 1 ELSE c
        x2 == IF x1 < 0 THEN 0 ELSE x1
        y2 == IF y1 < 0 THEN 0 ELSE y1
        c2 == IF c1 < 0 THEN 0 ELSE c1
    IN  x2 + y2 * image.w + image.w * image.h * c2

get_pixel(image, x, y, c) == image.data[GetIdx(image, x, y, c)]

\* Does set_pixel get past its early returns (lines 56-62)?
SetPasses(image, x, y, c) ==
    /\ ~(x > image.w)
    /\ ~(y > image.h)
    /\ ~(c > image.c)
    /\ ~(x < 0)
    /\ ~(y < 0)
    /\ ~(c < 0)

SetIdx(image, x, y, c) == x + y * image.w + image.w * image.h * c

set_pixel(image, x, y, c, v) ==
    IF SetPasses(image, x, y, c)
    THEN [image EXCEPT !.data[SetIdx(image, x, y, c)] = v,
                       !.wr = @ \cup {SetIdx(image, x, y, c)}]
    ELSE image

(***************************************************************************)
(* Inputs                                                                  *)
(***************************************************************************)
Samples == <<<<-1, 2>>, <<0, 1>>, <<1, 4>>, <<1, 1>>, <<3, 2>>, <<3, 4>>>>
UnitSamples == <<<<1, 4>>, <<1, 1>>, <<1, 2>>, <<0, 1>>, <<3, 4>>>>

\* An image of the given size whose i-th sample is taken from the sequence
\* seq, starting at seed; the memory after the buffer holds junk.
Pattern(w, h, c, seq, seed, junk) ==
    [w |-> w, h |-> h, c |-> c,
     data |-> [i \in 0 .. (MemLen(w, h, c) - 1) |->
                 IF i < BufLen(w, h, c)
                 THEN seq[((seed + i) % Len(seq)) + 1]
                 ELSE junk],
     wr |-> {}]

Images ==
    {Pattern(w, h, c, Samples, s, j) :
        w \in 1 .. MaxW, h \in 1 .. MaxH, c \in 1 .. MaxC,
        s \in 0 .. MaxSeed, j \in Junk}

None == <<>>
NoOp == [name |-> "none", a |-> <<>>]
NoPar == [op |-> NoOp, pc |-> <<>>, loc |-> <<>>, foot |-> <<>>, ooo |-> FALSE]

InitWith(S) ==
    /\ im \in S
    /\ pre = im
    /\ orig = im
    /\ op = NoOp
    /\ prev = "none"
    /\ n = 0
    /\ ret = None
    /\ acc = {}
    /\ out = None
    /\ par = NoPar

\* One completed call: the image after it, what it returned, what it touched.
Called(name, args, image, r, touched, o) ==
    /\ n' = n + 1
    /\ pre' = Fresh(im)
    /\ im' = image
    /\ op' = [name |-> name, a |-> args]
    /\ prev' = op.name
    /\ ret' = r
    /\ acc' = touched
    /\ out' = o
    /\ UNCHANGED <<orig, par>>

(***************************************************************************)
(* Specification of pixel access: calls of get_pixel and set_pixel         *)
(***************************************************************************)
Coords(bound) == -1 .. (bound + 1)

\* A call on the initial image; one more call of a bounded sequence of calls.
First == n = 0
More == n < MaxOps

CallGetPixel ==
    /\ First
    /\ \E x \in Coords(im.w), y \in Coords(im.h), c \in Coords(im.c) :
        Called("get_pixel", <<x, y, c>>, Fresh(im),
               get_pixel(im, x, y, c), {GetIdx(im, x, y, c)}, None)

CallSetPixel ==
    /\ First
    /\ \E x \in Coords(im.w), y \in Coords(im.h), c \in Coords(im.c),
          v \in {<<5, 1>>, <<1, 8>>} :
        LET r == set_pixel(Fresh(im), x, y, c, v)
        IN  Called("set_pixel", <<x, y, c, v>>, r, None, r.wr, None)

InitAccess == InitWith(Images)
NextAccess == CallGetPixel \/ CallSetPixel
SpecAccess == InitAccess /\ [][NextAccess]_vars

InRange(image, x, y, c) ==
    /\ 0 <= x /\ x < image.w
    /\ 0 <= y /\ y < image.h
    /\ 0 <= c /\ c < image.c

Clamp(k, bound) == IF k < 0 THEN 0 ELSE IF k > bound - 1 THEN bound - 1 ELSE k

\* The planar offset of sample (x, y, c): c*(w*h) + y*w + x.
Offset(image, x, y, c) == c * (image.w * image.h) + y * image.w + x

\* C1: every get_pixel call, for any integer triple, reads a cell inside the
\* buffer and returns the sample stored at the nearest valid edge coordinate.
C1_GetPixelClampsToEdge ==
    op.name = "get_pixel" =>
        /\ acc \subseteq Buffer(pre)
        /\ ret = pre.data[Offset(pre, Clamp(op.a[1], pre.w),
                                 Clamp(op.a[2], pre.h), Clamp(op.a[3], pre.c))]

\* C2: set_pixel writes v at (x,y,ch) only for an in-range triple and then
\* changes nothing else; for every other triple the whole memory is unchanged
\* and no cell outside the buffer is written.
C2_SetPixelDropsOutOfRange ==
    op.name = "set_pixel" =>
        /\ acc \subseteq Buffer(pre)
        /\ IF InRange(pre, op.a[1], op.a[2], op.a[3])
           THEN im.data = [pre.data EXCEPT
                             ![Offset(pre, op.a[1], op.a[2], op.a[3])] = op.a[4]]
           ELSE im.data = pre.data

(***************************************************************************)
(* process_image.c: shift_image, clamp_image, rgb_to_hsv, hsv_to_rgb       *)
(***************************************************************************)
\* A variant of ShiftIter that takes the sample of the next column.
ShiftIter_neighbour(image, i, j, c, v) ==
    set_pixel(image, i, j, c, RAdd(get_pixel(image, i + 1, j, c), v))

\* Body of shift_image's loops (line 142).
ShiftIter(image, i, j, c, v) ==
    set_pixel(image, i, j, c, RAdd(get_pixel(image, i, j, c), v))

\* A variant of ClampSample without the lower clamp.
ClampSample_upper(image, i, j, c) ==
    IF RGt(get_pixel(image, i, j, c), I(1))
    THEN set_pixel(image, i, j, c, I(1)) ELSE image

\* Body of clamp_image's innermost loop (lines 167-168).
ClampSample(image, i, j, c) ==
    LET a == IF RGt(get_pixel(image, i, j, c), I(1))
             THEN set_pixel(image, i, j, c, I(1)) ELSE image
    IN  IF RLt(get_pixel(a, i, j, c), I(0))
        THEN set_pixel(a, i, j, c, I(0)) ELSE a

\* The loop over c of clamp_image (lines 165-169), from channel c on.
RECURSIVE ClampIter(_, _, _, _)
ClampIter(image, i, j, c) ==
    IF c < image.c
    THEN ClampIter(ClampSample(image, i, j, c), i, j, c + 1)
    ELSE image

three_way_max(a, b, c) ==
    IF RGt(a, b) THEN (IF RGt(a, c) THEN a ELSE c)
    ELSE (IF RGt(b, c) THEN b ELSE c)

three_way_min(a, b, c) ==
    IF RLt(a, b) THEN (IF RLt(a, c) THEN a ELSE c)
    ELSE (IF RLt(b, c) THEN b ELSE c)

\* A variant of Hue that does not wrap a negative hue into [0,1).
Hue_nowrap(red, green, blue, value, diff) ==
    IF diff # I(0)
    THEN LET raw == IF value = red THEN RDiv(RSub(green, blue), diff)
                    ELSE IF value = green
                         THEN RAdd(RDiv(RSub(blue, red), diff), I(2))
                         ELSE RAdd(RDiv(RSub(red, green), diff), I(4))
         IN  RDiv(raw, I(6))
    ELSE I(0)

\* The hue of lines 242-248.
Hue(red, green, blue, value, diff) ==
    IF diff # I(0)
    THEN LET raw == IF value = red THEN RDiv(RSub(green, blue), diff)
                    ELSE IF value = green
                         THEN RAdd(RDiv(RSub(blue, red), diff), I(2))
                         ELSE RAdd(RDiv(RSub(red, green), diff), I(4))
         IN  IF RLt(raw, I(0)) THEN RAdd(RDiv(raw, I(6)), I(1))
             ELSE RDiv(raw, I(6))
    ELSE I(0)

\* Body of rgb_to_hsv's loops (lines 225-252) for pixel (w, h).
RgbToHsvIter(image, w, h) ==
    LET red == get_pixel(image, w, h, 0)
        green == get_pixel(image, w, h, 1)
        blue == get_pixel(image, w, h, 2)
        value == three_way_max(red, green, blue)
        min == three_way_min(red, green, blue)
        diff == RSub(value, min)
        saturation == IF RGt(value, I(0)) THEN RDiv(diff, value) ELSE I(0)
        hue == Hue(red, green, blue, value, diff)
    IN  set_pixel(set_pixel(set_pixel(image, w, h, 0, hue),
                            w, h, 1, saturation), w, h, 2, value)

\* The sector selection of lines 288-333: <<red, green, blue>> before diff
\* is added.
Sector(h6, chroma, X) ==
    IF RLe(I(0), h6) /\ RLe(h6, I(1)) THEN <<chroma, X, I(0)>>
    ELSE IF RLe(I(1), h6) /\ RLe(h6, I(2)) THEN <<X, chroma, I(0)>>
    ELSE IF RLe(I(2), h6) /\ RLe(h6, I(3)) THEN <<I(0), chroma, X>>
    ELSE IF RLe(I(3), h6) /\ RLe(h6, I(4)) THEN <<I(0), X, chroma>>
    ELSE IF RLe(I(4), h6) /\ RLe(h6, I(5)) THEN <<X, I(0), chroma>>
    ELSE IF RLe(I(5), h6) /\ RLe(h6, I(6)) THEN <<chroma, I(0), X>>
    ELSE <<I(0), I(0), I(0)>>

\* Body of hsv_to_rgb's loops (lines 276-341) for pixel (w, h).
HsvToRgbIter(image, w, h) ==
    LET hue == get_pixel(image, w, h, 0)
        saturation == get_pixel(image, w, h, 1)
        value == get_pixel(image, w, h, 2)
        chroma == RMul(value, saturation)
        h6 == RMul(hue, I(6))
        X == RMul(chroma, RSub(I(1), Fabs(RSub(Fmod(h6, I(2)), I(1)))))
        diff == RSub(value, chroma)
        rgb == Sector(h6, chroma, X)
    IN  set_pixel(set_pixel(set_pixel(image, w, h, 0, RAdd(rgb[1], diff)),
                            w, h, 1, RAdd(rgb[2], diff)),
                  w, h, 2, RAdd(rgb[3], diff))

\* The body of the per-pixel loops of the call o, for pixel (i, j).
Iter(image, o, i, j) ==
    CASE o.name = "shift_image" -> ShiftIter(image, i, j, o.a[1], o.a[2])
      [] o.name = "clamp_image" -> ClampIter(image, i, j, 0)
      [] o.name = "rgb_to_hsv" -> RgbToHsvIter(image, i, j)
      [] o.name = "hsv_to_rgb" -> HsvToRgbIter(image, i, j)

\* The cells that body reads.
IterReads(image, o, i, j) ==
    CASE o.name = "shift_image" -> {GetIdx(image, i, j, o.a[1])}
      [] o.name = "clamp_image" ->
            {GetIdx(image, i, j, c) : c \in 0 .. (image.c - 1)}
      [] OTHER -> {GetIdx(image, i, j, c) : c \in 0 .. 2}

\* The nested loops "for i < im.w, for j < im.h" from their k-th iteration.
RECURSIVE RunLoop(_, _, _)
RunLoop(image, o, k) ==
    IF k < image.w * image.h
    THEN RunLoop(Iter(image, o, k \div image.h, k % image.h), o, k + 1)
    ELSE image

LoopReads(image, o) ==
    UNION {IterReads(image, o, k \div image.h, k % image.h) :
             k \in 0 .. (image.w * image.h - 1)}

shift_image(image, c, v) ==
    RunLoop(image, [name |-> "shift_image", a |-> <<c, v>>], 0)
clamp_image(image) == RunLoop(image, [name |-> "clamp_image", a |-> <<>>], 0)
rgb_to_hsv(image) == RunLoop(image, [name |-> "rgb_to_hsv", a |-> <<>>], 0)
hsv_to_rgb(image) == RunLoop(image, [name |-> "hsv_to_rgb", a |-> <<>>], 0)

(***************************************************************************)
(* Specification of the transforms: calls of shift_image and clamp_image   *)
(***************************************************************************)
Shifts == {<<1, 2>>, <<-1, 1>>}

CallShiftImage ==
    /\ More
    /\ \E c \in Coords(im.c), v \in Shifts :
        LET r == shift_image(Fresh(im), c, v)
            o == [name |-> "shift_image", a |-> <<c, v>>]
        IN  Called("shift_image", <<c, v>>, r, None,
                   LoopReads(im, o) \cup r.wr, None)

CallClampImage ==
    /\ More
    /\ LET r == clamp_image(Fresh(im))
           o == [name |-> "clamp_image", a |-> <<>>]
       IN  Called("clamp_image", <<>>, r, None, LoopReads(im, o) \cup r.wr, None)

InitTransform == InitWith(Images)
NextTransform == CallShiftImage \/ CallClampImage
SpecTransform == InitTransform /\ [][NextTransform]_vars

Clamped(v) == IF RGt(v, I(1)) THEN I(1) ELSE IF RLt(v, I(0)) THEN I(0) ELSE v

\* C8: after clamp_image every sample lies in [0,1] (samples > 1 become 1,
\* samples < 0 become 0, the others are unchanged), and a second clamp_image
\* right after the first leaves the buffer as the first left it.
C8_ClampIdempotent ==
    op.name = "clamp_image" =>
        /\ \A i \in Buffer(im) :
              /\ im.data[i] = Clamped(pre.data[i])
              /\ RLe(I(0), im.data[i]) /\ RLe(im.data[i], I(1))
        /\ prev = "clamp_image" => im.data = pre.data

C8_Witness ==
    /\ op.name = "clamp_image" /\ prev = "clamp_image" /\ n = 2
    /\ im.w = 2 /\ im.h = 2
    /\ \E i \in Buffer(orig) : RGt(orig.data[i], I(1))
    /\ \E i \in Buffer(orig) : RLt(orig.data[i], I(0))
    /\ \E i \in Buffer(orig) : orig.data[i] = <<1, 4>>

\* C9: shift_image(im,c,v) with 0 <= c < im.c adds v to every sample of
\* channel c and leaves the other channels alone; for any other integer c the
\* call changes no sample and touches no cell outside the buffer.
C9_ShiftOneChannel ==
    op.name = "shift_image" =>
        LET c == op.a[1]
            v == op.a[2]
            plane == pre.w * pre.h
        IN  /\ acc \subseteq Buffer(pre)
            /\ IF 0 <= c /\ c < pre.c
               THEN \A i \in Buffer(pre) :
                       im.data[i] = IF i \div plane = c
                                    THEN RAdd(pre.data[i], v)
                                    ELSE pre.data[i]
               ELSE im.data = pre.data

(***************************************************************************)
(* Specification of the colorspace conversions on 3-channel images         *)
(***************************************************************************)
Grid == {Rat(k, HsvGrid) : k \in 0 .. HsvGrid}

\* One pixel with every combination of R, G, B on the grid.
Pixels ==
    {[w |-> 1, h |-> 1, c |-> 3,
      data |-> [i \in 0 .. (MemLen(1, 1, 3) - 1) |->
                  IF i < 3 THEN rgb[i + 1] ELSE j],
      wr |-> {}] : rgb \in Grid \X Grid \X Grid, j \in Junk}

Images3 ==
    Pixels \cup
    {Pattern(w, h, 3, q, s, j) :
        w \in 1 .. MaxW, h \in 1 .. MaxH, q \in {Samples, UnitSamples},
        s \in 0 .. MaxSeed, j \in Junk}

CallRgbToHsv ==
    /\ More
    /\ LET r == rgb_to_hsv(Fresh(im))
           o == [name |-> "rgb_to_hsv", a |-> <<>>]
       IN  Called("rgb_to_hsv", <<>>, r, None, LoopReads(im, o) \cup r.wr, None)

CallHsvToRgb ==
    /\ More
    /\ LET r == hsv_to_rgb(Fresh(im))
           o == [name |-> "hsv_to_rgb", a |-> <<>>]
       IN  Called("hsv_to_rgb", <<>>, r, None, LoopReads(im, o) \cup r.wr, None)

InitHsv == InitWith(Images3)
NextHsv == CallRgbToHsv \/ CallHsvToRgb
SpecHsv == InitHsv /\ [][NextHsv]_vars

UnitImage(image) ==
    \A i \in Buffer(image) :
        RLe(I(0), image.data[i]) /\ RLe(image.data[i], I(1))

RoundTripped == n = 2 /\ prev = "rgb_to_hsv" /\ op.name = "hsv_to_rgb"

\* C7: for a 3-channel image with all samples in [0,1], rgb_to_hsv followed
\* by hsv_to_rgb reproduces the original R, G, B of every pixel, achromatic
\* pixels and pure black included.
C7_HsvRoundTrip ==
    (RoundTripped /\ UnitImage(orig)) =>
        \A i \in Buffer(orig) : im.data[i] = orig.data[i]

\* A round trip over an image that has a black, a grey (R=G=B>0) or a
\* hue-wrapping (R max, G < B) pixel.
C7_Witness ==
    /\ RoundTripped /\ UnitImage(orig)
    /\ orig.w = 1 /\ orig.h = 1
    /\ orig.data[0] = I(1) /\ orig.data[1] = <<1, 4>> /\ orig.data[2] = <<3, 4>>
    /\ pre.data[0] = <<8, 9>>

(***************************************************************************)
(* resize_image.c                                                          *)
(***************************************************************************)
nn_interpolate(image, x, y, c) == get_pixel(image, Round(x), Round(y), c)

NnReads(image, x, y, c) == {GetIdx(image, Round(x), Round(y), c)}

bilinear_interpolate(image, x, y, c) ==
    LET left == Floor(x)
        right == Ceil(x)
        bottom == Ceil(y)
        top == Floor(y)
        v1 == get_pixel(image, left, top, c)
        v2 == get_pixel(image, right, top, c)
        v3 == get_pixel(image, left, bottom, c)
        v4 == get_pixel(image, right, bottom, c)
        q1 == RAdd(RMul(RSub(I(bottom), y), v1), RMul(RSub(y, I(top)), v3))
        q2 == RAdd(RMul(RSub(I(bottom), y), v2), RMul(RSub(y, I(top)), v4))
    IN  RAdd(RMul(RSub(x, I(left)), q2), RMul(RSub(I(right), x), q1))

BilinearReads(image, x, y, c) ==
    {GetIdx(image, Floor(x), Floor(y), c), GetIdx(image, Ceil(x), Floor(y), c),
     GetIdx(image, Floor(x), Ceil(y), c), GetIdx(image, Ceil(x), Ceil(y), c)}

\* A variant of SrcCoord that aligns pixel corners instead of centres.
SrcCoord_corner(srcLen, dstLen, k) ==
    LET ratio == Rat(srcLen, dstLen)
    IN  RAdd(RMul(ratio, I(k)), RMul(<<1, 2>>, ratio))

\* The source coordinate of destination index k along an axis of source size
\* srcLen and destination size dstLen: ratio * k + (-0.5 + 0.5 * ratio).
SrcCoord(srcLen, dstLen, k) ==
    LET ratio == Rat(srcLen, dstLen)
        correction_factor == RAdd(<<-1, 2>>, RMul(<<1, 2>>, ratio))
    IN  RAdd(RMul(ratio, I(k)), correction_factor)

Sample(kind, image, x, y, z) ==
    IF kind = "nn" THEN nn_interpolate(image, x, y, z)
    ELSE bilinear_interpolate(image, x, y, z)

SampleReads(kind, image, x, y, z) ==
    IF kind = "nn" THEN NnReads(image, x, y, z)
    ELSE BilinearReads(image, x, y, z)

\* The loops over row, col, z of nn_resize / bilinear_resize, from their k-th
\* iteration on; resized is the destination image.
RECURSIVE ResizeLoop(_, _, _, _)
ResizeLoop(kind, image, resized, k) ==
    IF k < resized.h * resized.w * resized.c
    THEN LET z == k % resized.c
             col == (k \div resized.c) % resized.w
             row == k \div (resized.c * resized.w)
             x == SrcCoord(image.w, resized.w, col)
             y == SrcCoord(image.h, resized.h, row)
             val == Sample(kind, image, x, y, z)
         IN  ResizeLoop(kind, image, set_pixel(resized, col, row, z, val), k + 1)
    ELSE resized

ResizeReads(kind, image, w, h) ==
    UNION {SampleReads(kind, image, SrcCoord(image.w, w, col),
                       SrcCoord(image.h, h, row), z) :
             col \in 0 .. (w - 1), row \in 0 .. (h - 1), z \in 0 .. (image.c - 1)}

nn_resize(image, w, h, junk) ==
    ResizeLoop("nn", image, make_image(w, h, image.c, junk), 0)

bilinear_resize(image, w, h, junk) ==
    ResizeLoop("bilinear", image, make_image(w, h, image.c, junk), 0)

(***************************************************************************)
(* Specification of the resamplers                                         *)
(***************************************************************************)
\* The 2x2 one-channel image [[0,1],[1,0]].
Checker(junk) ==
    [w |-> 2, h |-> 2, c |-> 1,
     data |-> [i \in 0 .. (MemLen(2, 2, 1) - 1) |->
                 IF i \in {1, 2} THEN I(1) ELSE IF i < 4 THEN I(0) ELSE junk],
     wr |-> {}]

ImagesR == Images \cup {Checker(j) : j \in Junk}

\* Sampling positions: the integers and the half-way points from -1/2 to
\* bound - 1/2.
Positions(bound) == {Rat(k, 2) : k \in -1 .. (2 * bound - 1)}

NewSizes(len) == (1 .. MaxNew) \cup {len, 2 * len}

CallBilinearInterpolate ==
    /\ First
    /\ \E x \in Positions(im.w), y \in Positions(im.h), c \in 0 .. (im.c - 1) :
         Called("bilinear_interpolate", <<x, y, c>>, Fresh(im),
                bilinear_interpolate(im, x, y, c), BilinearReads(im, x, y, c),
                None)

CallNnResize ==
    /\ First
    /\ \E w \in NewSizes(im.w), h \in NewSizes(im.h), j \in Junk :
         Called("nn_resize", <<w, h>>, Fresh(im), None,
                ResizeReads("nn", im, w, h), nn_resize(im, w, h, j))

CallBilinearResize ==
    /\ First
    /\ \E w \in NewSizes(im.w), h \in NewSizes(im.h), j \in Junk :
         Called("bilinear_resize", <<w, h>>, Fresh(im), None,
                ResizeReads("bilinear", im, w, h), bilinear_resize(im, w, h, j))

InitResize == InitWith(ImagesR)
NextResize == CallBilinearInterpolate \/ CallNnResize \/ CallBilinearResize
SpecResize == InitResize /\ [][NextResize]_vars

IsInt(a) == a[2] = 1

\* C3: bilinear_interpolate at an in-range position returns the stored sample
\* when x and y are both integers, and the linear blend along the other axis
\* when only one of them is.
C3_BilinearAtIntegers ==
    op.name = "bilinear_interpolate" =>
        LET x == op.a[1]
            y == op.a[2]
            c == op.a[3]
            inside == /\ RLe(I(0), x) /\ RLe(x, I(pre.w - 1))
                      /\ RLe(I(0), y) /\ RLe(y, I(pre.h - 1))
            S(i, j) == pre.data[Offset(pre, i, j, c)]
            Blend(a, lo, v, w) ==
                RAdd(RMul(RSub(I(lo + 1), a), v), RMul(RSub(a, I(lo)), w))
        IN  inside =>
              /\ (IsInt(x) /\ IsInt(y)) => ret = S(x[1], y[1])
              /\ (IsInt(x) /\ ~IsInt(y)) =>
                    ret = Blend(y, Floor(y), S(x[1], Floor(y)), S(x[1], Ceil(y)))
              /\ (~IsInt(x) /\ IsInt(y)) =>
                    ret = Blend(x, Floor(x), S(Floor(x), y[1]), S(Ceil(x), y[1]))

SameSize == out.w = pre.w /\ out.h = pre.h /\ out.c = pre.c

\* C4: nn_resize(im, im.w, im.h) returns an image of the same dimensions
\* whose every sample equals the corresponding sample of im.
C4_NnResizeIdentity ==
    (op.name = "nn_resize" /\ op.a = <<pre.w, pre.h>>) =>
        /\ SameSize
        /\ \A i \in Buffer(pre) : out.data[i] = pre.data[i]

C4_Witness ==
    /\ op.name = "nn_resize" /\ op.a = <<2, 2>>
    /\ pre.w = 2 /\ pre.h = 2 /\ pre.c = 2
    /\ out.data[1] # out.data[2]

\* C5: bilinear_resize(im, im.w, im.h) returns an image of the same
\* dimensions whose every sample equals the corresponding sample of im.
C5_BilinearResizeIdentity ==
    (op.name = "bilinear_resize" /\ op.a = <<pre.w, pre.h>>) =>
        /\ SameSize
        /\ \A i \in Buffer(pre) : out.data[i] = pre.data[i]

IsChecker(image) ==
    /\ image.w = 2 /\ image.h = 2 /\ image.c = 1
    /\ \A i \in 0 .. 3 : image.data[i] = IF i \in {1, 2} THEN I(1) ELSE I(0)

\* C6: bilinear_resize of the 2x2 one-channel image [0,1,1,0] to 4x4 reads
\* only cells 0..3 of the source, gives 16 samples in [0,1], and its corner
\* outputs (0,0),(3,0),(0,3),(3,3) equal the source corners 0,1,1,0.
C6_CheckerTo4x4 ==
    (op.name = "bilinear_resize" /\ op.a = <<4, 4>> /\ IsChecker(pre)) =>
        /\ acc \subseteq 0 .. 3
        /\ \A i \in 0 .. 15 :
              RLe(I(0), out.data[i]) /\ RLe(out.data[i], I(1))
        /\ out.data[Offset(out, 0, 0, 0)] = I(0)
        /\ out.data[Offset(out, 3, 0, 0)] = I(1)
        /\ out.data[Offset(out, 0, 3, 0)] = I(1)
        /\ out.data[Offset(out, 3, 3, 0)] = I(0)

(***************************************************************************)
(* Specification of one call of rgb_to_hsv, hsv_to_rgb, shift_image or     *)
(* clamp_image whose per-pixel iterations run in any order and overlap:    *)
(* iteration k (pixel i = k \div h, j = k % h) first loads the cells it    *)
(* reads, and later stores what its body computes from the loaded values.  *)
(* foot[k] collects the cells iteration k touched; ooo records that some   *)
(* iteration stored before an earlier one of the sequential order had.     *)
(***************************************************************************)
ImagesP ==
    {Pattern(w, h, 3, Samples, s, j) :
        w \in 1 .. ParW, h \in {1, 2}, s \in 0 .. MaxSeed, j \in Junk}

ParOps ==
    {[name |-> "shift_image", a |-> <<c, <<1, 2>>>>] : c \in Coords(3)}
    \cup {[name |-> nm, a |-> <<>>] :
            nm \in {"clamp_image", "rgb_to_hsv", "hsv_to_rgb"}}

PixelI(image, k) == k \div image.h
PixelJ(image, k) == k % image.h

ParStart ==
    /\ par.op.name = "none"
    /\ \E o \in ParOps :
         par' = [op |-> o,
                 pc |-> [k \in 0 .. (im.w * im.h - 1) |-> "todo"],
                 loc |-> [k \in 0 .. (im.w * im.h - 1) |-> <<>>],
                 foot |-> [k \in 0 .. (im.w * im.h - 1) |-> {}],
                 ooo |-> FALSE]
    /\ pre' = Fresh(im)
    /\ im' = Fresh(im)
    /\ UNCHANGED <<orig, op, prev, n, ret, acc, out>>

IterBegin ==
    /\ par.op.name # "none"
    /\ \E k \in DOMAIN par.pc :
         /\ par.pc[k] = "todo"
         /\ LET reads == IterReads(im, par.op, PixelI(im, k), PixelJ(im, k))
            IN  par' = [par EXCEPT !.pc[k] = "run",
                                   !.loc[k] = [a \in reads |-> im.data[a]],
                                   !.foot[k] = reads]
    /\ UNCHANGED <<im, pre, orig, op, prev, n, ret, acc, out>>

IterEnd ==
    /\ par.op.name # "none"
    /\ \E k \in DOMAIN par.pc :
         /\ par.pc[k] = "run"
         /\ LET seen == [a \in DOMAIN im.data |->
                           IF a \in DOMAIN par.loc[k] THEN par.loc[k][a]
                           ELSE im.data[a]]
                r == Iter([im EXCEPT !.data = seen, !.wr = {}], par.op,
                          PixelI(im, k), PixelJ(im, k))
            IN  /\ im' = [im EXCEPT
                            !.data = [a \in DOMAIN im.data |->
                                        IF a \in r.wr THEN r.data[a]
                                        ELSE im.data[a]],
                            !.wr = @ \cup r.wr]
                /\ par' = [par EXCEPT
                             !.pc[k] = "done",
                             !.foot[k] = @ \cup r.wr,
                             !.ooo = @ \/ \E k2 \in 0 .. (k - 1) :
                                              par.pc[k2] # "done"]
    /\ UNCHANGED <<pre, orig, op, prev, n, ret, acc, out>>

InitPar == InitWith(ImagesP)
NextPar == ParStart \/ IterBegin \/ IterEnd
SpecPar == InitPar /\ [][NextPar]_vars

AllDone ==
    /\ par.op.name # "none"
    /\ \A k \in DOMAIN par.pc : par.pc[k] = "done"

\* C10: within one call, the iteration for pixel (x,y) touches only cells at
\* spatial position (x,y) (planar offset x + y*w in some plane), so whatever
\* the order and overlap of the iterations, the memory at the end equals the
\* memory the sequential loop produces.
C10_IterationsIndependent ==
    par.op.name # "none" =>
        /\ \A k \in DOMAIN par.pc : \A a \in par.foot[k] :
              a % (im.w * im.h) = PixelI(im, k) + PixelJ(im, k) * im.w
        /\ AllDone => im.data = RunLoop(pre, par.op, 0).data

\* A finished call on a 2x2 image in which the iterations did not store in
\* the sequential order.
C10_Witness ==
    /\ AllDone /\ par.ooo
    /\ im.w = 2 /\ im.h = 2
    /\ par.op.name = "rgb_to_hsv"
    /\ im.data # pre.data
====
